---- MODULE Spec2Model ----
(***************************************************************************)
(* Model of the stratified splitters of da_datasets (utils.py: get_n_shot, *)
(* get_n_split) and of the dataset views built on their results            *)
(* (datasets.py: ImgDataset, Office31.get_dataset).                        *)
(*                                                                         *)
(* Conventions.                                                            *)
(*  - Positions are Python positions 0..N-1; a TLA+ sequence s holds the   *)
(*    Python element s[p] at s[p+1].                                       *)
(*  - A size is held as its numerator in quarters: the model's q stands    *)
(*    for the float q/4.  Quarters are dyadic, so the float product        *)
(*    size_total * size is exact and int() of it is Trunc(size_total*q,4). *)
(*  - np.random.shuffle is a choice among all permutations.                *)
(***************************************************************************)
EXTENDS Integers, Sequences, FiniteSets

\* ---------------------------------------------------------------- bounds
MaxLen == 4        \* longest label sequence
MaxSizes == 2      \* longest sizes list

ClassIds == {0, 1}                  \* label values that occur
SizeValues == {-1, 0, 1, 2, 5}   \* sizes in quarters: -0.25, 0, 0.25, 0.5, 1.25
NValues == -2 .. MaxLen             \* shot counts tried
KValues(len) == -(len + 1) .. len    \* item indexes tried on a dataset of length len

VARIABLES
  labels,        \* the caller's label sequence
  pc,            \* "idle", "shot_loop", "split_seed", "split_fill",
                 \* "returned", "views", "read", "raised"
  fn,            \* which splitter runs: "none", "get_n_shot", "get_n_split", "full"
  n,             \* get_n_shot's n
  sizes,         \* get_n_split's sizes (in quarters)
  uniq,          \* classes of np.unique(labels) still to be visited
  index_1,       \* get_n_shot: list of per-class chunks
  index_2,       \* get_n_shot: list of per-class chunks
  indices,       \* get_n_split: the n_datasets lists
  leftover,      \* get_n_split: list of per-class leftover chunks
  pool,          \* get_n_split: leftover after concatenate and shuffle
  target_sizes,  \* get_n_split: target sizes
  start,         \* get_n_split: fill cursor
  i,             \* get_n_split: fill loop counter
  result,        \* the index arrays returned
  err,           \* the exception raised, "none" when none
  views,         \* the ImgDataset objects get_dataset built
  sample         \* outcome of the last __getitem__

vars == <<labels, pc, fn, n, sizes, uniq, index_1, index_2, indices, leftover,
          pool, target_sizes, start, i, result, err, views, sample>>

\* ------------------------------------------------------- Python helpers
Min(a, b) == IF a < b THEN a ELSE b
Max(a, b) == IF a > b THEN a ELSE b

RECURSIVE SumSeq(_)
SumSeq(s) == IF s = <<>> THEN 0 ELSE Head(s) + SumSeq(Tail(s))

RECURSIVE Concat(_)
Concat(ss) == IF ss = <<>> THEN <<>> ELSE Head(ss) \o Concat(Tail(ss))

Range(s) == {s[j] : j \in 1 .. Len(s)}

NoDup(s) == \A a, b \in 1 .. Len(s) : a # b => s[a] # s[b]

\* int(x) of the float x = num/den, den > 0: truncation toward zero
Trunc(num, den) == IF num >= 0 THEN num \div den ELSE -((-num) \div den)

\* a slice bound as Python normalises it against a length
SliceBound(b, len) == IF b < 0 THEN Max(b + len, 0) ELSE Min(b, len)

\* s[a:b]
PySlice(s, a, b) ==
  LET lo == SliceBound(a, Len(s))
      hi == SliceBound(b, Len(s))
  IN  IF lo < hi THEN SubSeq(s, lo + 1, hi) ELSE <<>>

\* s[:b]
SliceTo(s, b) == PySlice(s, 0, b)

\* s[a:]
SliceFrom(s, a) ==
  LET lo == SliceBound(a, Len(s))
  IN  IF lo < Len(s) THEN SubSeq(s, lo + 1, Len(s)) ELSE <<>>

RECURSIVE Perms(_)
Perms(S) ==
  IF S = {} THEN {<<>>}
  ELSE UNION {{<<x>> \o p : p \in Perms(S \ {x})} : x \in S}

\* the outcomes of np.random.shuffle(s)
Shuffles(s) == {[j \in 1 .. Len(s) |-> s[p[j]]] : p \in Perms(1 .. Len(s))}

RECURSIVE SortedSeq(_)
SortedSeq(S) ==
  IF S = {} THEN <<>>
  ELSE LET m == CHOOSE x \in S : \A y \in S : x <= y
       IN  <<m>> \o SortedSeq(S \ {m})

\* np.unique(labels): the distinct values, ascending
Unique(lbls) == SortedSeq(Range(lbls))

\* index_all[labels == val]: the positions of class val, ascending
Positions(lbls, val) == SortedSeq({p \in 0 .. Len(lbls) - 1 : lbls[p + 1] = val})

\* a[index] for an integer index array
Take(a, index) == [j \in 1 .. Len(index) |-> a[index[j] + 1]]

CountOf(lbls, index, val) ==
  Cardinality({j \in 1 .. Len(index) : lbls[index[j] + 1] = val})

ClassSize(lbls, val) == Cardinality({p \in 1 .. Len(lbls) : lbls[p] = val})

\* variant: the shuffle is applied to labels itself as well
ShuffleClassInPlace(lbls, val) ==
  {[labels |-> l2, index |-> ix] :
     l2 \in Shuffles(lbls), ix \in Shuffles(Positions(lbls, val))}

\* index = index_all[labels == val]; np.random.shuffle(index): the mask makes a
\* copy, the shuffle permutes the copy and leaves labels as it was
ShuffleClass(lbls, val) ==
  {[labels |-> lbls, index |-> ix] : ix \in Shuffles(Positions(lbls, val))}

\* ----------------------------------------------------------------- Init
RECURSIVE SeqsUpTo(_, _)
SeqsUpTo(S, len) ==
  IF len = 0 THEN {<<>>}
  ELSE LET shorter == SeqsUpTo(S, len - 1)
       IN  shorter \cup {Append(s, x) : s \in shorter, x \in S}

Init ==
  /\ labels \in SeqsUpTo(ClassIds, MaxLen)
  /\ pc = "idle"
  /\ fn = "none"
  /\ n = 0
  /\ sizes = <<>>
  /\ uniq = <<>>
  /\ index_1 = <<>>
  /\ index_2 = <<>>
  /\ indices = <<>>
  /\ leftover = <<>>
  /\ pool = <<>>
  /\ target_sizes = <<>>
  /\ start = 0
  /\ i = 0
  /\ result = <<>>
  /\ err = "none"
  /\ views = <<>>
  /\ sample = [view |-> 0, k |-> 0, out |-> [status |-> "none"]]

\* ----------------------------------------------------------- get_n_shot
\* lines 130-135: entry, up to the loop
ShotCall(nn) ==
  /\ pc = "idle"
  /\ pc' = "shot_loop"
  /\ fn' = "get_n_shot"
  /\ n' = nn
  /\ uniq' = Unique(labels)
  /\ index_1' = <<>>
  /\ index_2' = <<>>
  /\ UNCHANGED <<labels, sizes, indices, leftover, pool, target_sizes, start, i,
                 result, err, views, sample>>

\* variants: slices that are off by one
ShotTakeOneMore(index, nn) == SliceTo(index, nn + 1)
ShotRestSkipOne(index, nn) == SliceFrom(index, nn + 1)

\* index[:n] and index[n:] of one class
ShotTake(index, nn) == SliceTo(index, nn)
ShotRest(index, nn) == SliceFrom(index, nn)

\* lines 137-141: one iteration of the loop over the classes
ShotIter ==
  /\ pc = "shot_loop"
  /\ uniq # <<>>
  /\ \E r \in ShuffleClass(labels, Head(uniq)) :
       /\ labels' = r.labels
       /\ index_1' = Append(index_1, ShotTake(r.index, n))
       /\ index_2' = Append(index_2, ShotRest(r.index, n))
  /\ uniq' = Tail(uniq)
  /\ UNCHANGED <<pc, fn, n, sizes, indices, leftover, pool, target_sizes, start,
                 i, result, err, views, sample>>

\* lines 143-145: np.concatenate of an empty list raises ValueError
ShotReturn ==
  /\ pc = "shot_loop"
  /\ uniq = <<>>
  /\ IF index_1 = <<>>
     THEN /\ pc' = "raised"
          /\ err' = "ValueError"
          /\ UNCHANGED result
     ELSE /\ pc' = "returned"
          /\ result' = <<Concat(index_1), Concat(index_2)>>
          /\ UNCHANGED err
  /\ UNCHANGED <<labels, fn, n, sizes, uniq, index_1, index_2, indices, leftover,
                 pool, target_sizes, start, i, views, sample>>

\* ---------------------------------------------------------- get_n_split
\* variant: round() to the nearest integer in place of int()
TargetSizesRounded(size_total, szs) ==
  LET firsts == [j \in 1 .. Len(szs) |-> Trunc(2 * size_total * szs[j] + 4, 8)]
  IN  Append(firsts, size_total - SumSeq(firsts))

\* lines 166-167: int(size_total * size) for every size, then the remainder
TargetSizes(size_total, szs) ==
  LET firsts == [j \in 1 .. Len(szs) |-> Trunc(size_total * szs[j], 4)]
  IN  Append(firsts, size_total - SumSeq(firsts))

\* lines 158-169: entry, up to the loop over the classes
SplitCall(szs) ==
  /\ pc = "idle"
  /\ pc' = "split_seed"
  /\ fn' = "get_n_split"
  /\ sizes' = szs
  /\ indices' = [j \in 1 .. Len(szs) + 1 |-> <<>>]
  /\ leftover' = <<>>
  /\ target_sizes' = TargetSizes(Len(labels), szs)
  /\ uniq' = Unique(labels)
  /\ UNCHANGED <<labels, n, index_1, index_2, pool, start, i, result, err, views,
                 sample>>

n_datasets == Len(sizes) + 1

\* variant: range(n_datasets - 1), the last dataset gets no seed
SeedGroupsSkipLast(ind, index, done) ==
  [j \in 1 .. Len(ind) |-> IF j < done THEN Append(ind[j], index[j]) ELSE ind[j]]

\* lines 178-179: indices[return_index].append(index[return_index]) for
\* return_index = 0, 1, ...; done is the number of appends that succeeded
SeedGroups(ind, index, done) ==
  [j \in 1 .. Len(ind) |-> IF j <= done THEN Append(ind[j], index[j]) ELSE ind[j]]

\* index[n_datasets:]
SeedRest(index, k) == SliceFrom(index, k)

\* lines 172-181: one iteration of the loop over the classes; index[return_index]
\* raises IndexError at the first return_index >= len(index)
SplitSeed ==
  /\ pc = "split_seed"
  /\ uniq # <<>>
  /\ \E r \in ShuffleClass(labels, Head(uniq)) :
       /\ labels' = r.labels
       /\ IF Len(r.index) < n_datasets
          THEN /\ indices' = SeedGroups(indices, r.index, Len(r.index))
               /\ pc' = "raised"
               /\ err' = "IndexError"
               /\ UNCHANGED leftover
          ELSE /\ indices' = SeedGroups(indices, r.index, n_datasets)
               /\ leftover' = Append(leftover, SeedRest(r.index, n_datasets))
               /\ UNCHANGED <<pc, err>>
  /\ uniq' = Tail(uniq)
  /\ UNCHANGED <<fn, n, sizes, index_1, index_2, pool, target_sizes, start, i,
                 result, views, sample>>

\* lines 184-187: np.concatenate of an empty list raises ValueError
SplitConcat ==
  /\ pc = "split_seed"
  /\ uniq = <<>>
  /\ IF leftover = <<>>
     THEN /\ pc' = "raised"
          /\ err' = "ValueError"
          /\ UNCHANGED <<pool, start, i>>
     ELSE /\ pool' \in Shuffles(Concat(leftover))
          /\ start' = 0
          /\ i' = 0
          /\ pc' = "split_fill"
          /\ UNCHANGED err
  /\ UNCHANGED <<labels, fn, n, sizes, uniq, index_1, index_2, indices, leftover,
                 target_sizes, result, views, sample>>

\* variant: the items the group already holds are not subtracted
FillNeedWholeTarget(tgt, ind, g) == tgt[g + 1]

\* line 190: how many items more group g (0-based) is to get
FillNeed(tgt, ind, g) == tgt[g + 1] - Len(ind[g + 1])

\* variant: leftover[start:], the end of the slice forgotten
FillSliceToEnd(lo, st, need) == SliceFrom(lo, st)

\* line 192: leftover[start:start+target_size]
FillSlice(lo, st, need) == PySlice(lo, st, st + need)

\* lines 188-194: one iteration of the fill loop
SplitFill ==
  /\ pc = "split_fill"
  /\ i < n_datasets
  /\ LET need == FillNeed(target_sizes, indices, i)
     IN  /\ indices' = [indices EXCEPT ![i + 1] = @ \o FillSlice(pool, start, need)]
         /\ start' = start + need
  /\ i' = i + 1
  /\ UNCHANGED <<labels, pc, fn, n, sizes, uniq, index_1, index_2, leftover, pool,
                 target_sizes, result, err, views, sample>>

\* lines 196-198
SplitReturn ==
  /\ pc = "split_fill"
  /\ i = n_datasets
  /\ pc' = "returned"
  /\ result' = indices
  /\ UNCHANGED <<labels, fn, n, sizes, uniq, index_1, index_2, indices, leftover,
                 pool, target_sizes, start, i, err, views, sample>>

\* ------------------------------------------------ ImgDataset, get_dataset
\* _load_data: the image paths, parallel to labels; distinct files, distinct paths
Images(lbls) == [p \in 1 .. Len(lbls) |-> 100 + p]

\* Image.open(path) and the caller's transform
ImageOpen(path) == [file |-> path]
Transform(img) == [tensor |-> img]

\* ImgDataset.__init__
ImgDataset(x, y) == [x |-> x, y |-> y]

\* ImgDataset.__len__
DatasetLen(ds) == Len(ds.x)

\* variant: an index outside the dataset is clamped to its last item
GetItemClamped(ds, k) ==
  LET len == Len(ds.x)
      at == IF k < 0 THEN Max(k + len, 0) ELSE Min(k, len - 1)
  IN  IF len > 0
      THEN [status |-> "ok",
            value |-> <<[tensor |-> [file |-> ds.x[at + 1]]], ds.y[at + 1]>>]
      ELSE [status |-> "IndexError"]

\* ImgDataset.__getitem__: self.x and self.y are numpy arrays, whose integer
\* indexing counts a negative index from the end and raises IndexError outside
\* -len .. len-1
GetItem(ds, k) ==
  LET len == DatasetLen(ds)
      at == IF k < 0 THEN k + len ELSE k
  IN  IF 0 <= at /\ at < len
      THEN [status |-> "ok",
            value |-> <<Transform(ImageOpen(ds.x[at + 1])), ds.y[at + 1]>>]
      ELSE [status |-> "IndexError"]

\* get_dataset, lines 192-193: split == 'full'
GetDatasetFull ==
  /\ pc = "idle"
  /\ pc' = "views"
  /\ fn' = "full"
  /\ views' = <<ImgDataset(Images(labels), labels)>>
  /\ UNCHANGED <<labels, n, sizes, uniq, index_1, index_2, indices, leftover, pool,
                 target_sizes, start, i, result, err, sample>>

\* get_dataset, lines 197-199 and 202-206: one dataset per returned index array
BuildViews ==
  /\ pc = "returned"
  /\ pc' = "views"
  /\ views' = [v \in 1 .. Len(result) |->
                 ImgDataset(Take(Images(labels), result[v]), Take(labels, result[v]))]
  /\ UNCHANGED <<labels, fn, n, sizes, uniq, index_1, index_2, indices, leftover,
                 pool, target_sizes, start, i, result, err, sample>>

\* a consumer reads item k of dataset v; __getitem__ reads self.x and self.y and
\* writes nothing, so one read stands for any number of them
ReadItem(v, k) ==
  /\ pc = "views"
  /\ pc' = "read"
  /\ sample' = [view |-> v, k |-> k, out |-> GetItem(views[v], k)]
  /\ UNCHANGED <<labels, fn, n, sizes, uniq, index_1, index_2, indices,
                 leftover, pool, target_sizes, start, i, result, err, views>>

\* ----------------------------------------------------------------- Next
Next == \/ \E nn \in NValues : ShotCall(nn)
        \/ ShotIter
        \/ ShotReturn
        \/ \E szs \in SeqsUpTo(SizeValues, MaxSizes) : SplitCall(szs)
        \/ SplitSeed
        \/ SplitConcat
        \/ SplitFill
        \/ SplitReturn
        \/ GetDatasetFull
        \/ BuildViews

Spec == Init /\ [][Next]_vars

\* the same program with a consumer reading the datasets
NextRead == \/ Next
            \/ \E v \in 1 .. Len(views) :
                 \E k \in KValues(DatasetLen(views[v])) : ReadItem(v, k)

SpecRead == Init /\ [][NextRead]_vars

\* ------------------------------------------------------ claim vocabulary
N == Len(labels)
AllPositions == 0 .. N - 1
Classes == Range(labels)
NumClasses == Cardinality(Classes)

Returned == pc \in {"returned", "views", "read"}
ShotReturned == fn = "get_n_shot" /\ Returned
SplitReturned == fn = "get_n_split" /\ Returned
\* the fill loop of get_n_split has run through all groups
FillDone == fn = "get_n_split" /\ (Returned \/ (pc = "split_fill" /\ i = n_datasets))

\* every position exactly once in the arrays of rs taken together
IsPartition(rs) ==
  /\ NoDup(Concat(rs))
  /\ Range(Concat(rs)) = AllPositions

InUnit(q) == 0 <= q /\ q <= 4          \* the size q/4 lies in [0, 1]
SizesValid == (\A j \in 1 .. Len(sizes) : InUnit(sizes[j])) /\ SumSeq(sizes) <= 4
EveryClassHasK == \A c \in Classes : ClassSize(labels, c) >= n_datasets

\* target[j] as the specification words it: floor(len * sizes[j]), the last one
\* the remainder
FloorTarget(g) ==
  LET fl(j) == (N * sizes[j]) \div 4
  IN  IF g < Len(sizes) THEN fl(g + 1)
      ELSE N - SumSeq([j \in 1 .. Len(sizes) |-> fl(j)])

\* ---------------------------------------------------------------- claims

\* C1: for non-empty labels and n >= 0, get_n_shot returns, and its two arrays
\* hold every position 0..len(labels)-1 exactly once between them (disjoint, no
\* duplicate, union the full range), whatever the shuffles gave.
C1_ShotPartition ==
  (fn = "get_n_shot" /\ labels # <<>> /\ n >= 0) =>
    /\ pc # "raised"
    /\ Returned => (Len(result) = 2 /\ IsPartition(result))

C1_Witness ==
  /\ ShotReturned
  /\ n >= 1
  /\ NumClasses = 2
  /\ result[1] # <<>>
  /\ result[2] # <<>>

C3_SplitPartition ==
  (SplitReturned /\ SizesValid /\ EveryClassHasK) =>
    (Len(result) = n_datasets /\ IsPartition(result))

\* no pool exhaustion: the pool is not smaller than the sum of the remaining
\* targets (each group is seeded with one position per class), and every group
\* that still needed items got that many
NoPoolExhaustion ==
  /\ Len(pool) >= SumSeq([g \in 1 .. n_datasets |-> FloorTarget(g - 1) - NumClasses])
  /\ \A g \in 0 .. n_datasets - 1 :
       FloorTarget(g) > NumClasses => Len(result[g + 1]) >= FloorTarget(g)

C5_EveryGroupEveryClass ==
  (fn = "get_n_split" /\ labels # <<>> /\ EveryClassHasK) =>
    /\ pc # "raised"
    /\ FillDone =>
         \A g \in 1 .. n_datasets : \A c \in Classes :
           CountOf(labels, indices[g], c) >= 1

C5_Witness ==
  /\ SplitReturned
  /\ SizesValid
  /\ EveryClassHasK
  /\ NumClasses = 2
  /\ n_datasets = 2
  /\ \A g \in 1 .. 2 : \A c \in Classes : CountOf(labels, result[g], c) >= 1

\* C6: when some class has fewer than k members, get_n_split does not raise
\* and returns k groups (stated here for sizes that are valid).
C6_SmallClassNoRaise ==
  (fn = "get_n_split" /\ SizesValid /\ ~EveryClassHasK) =>
    /\ pc # "raised"
    /\ Returned => Len(result) = n_datasets

\* C7: get_n_shot with n < 0, get_n_split with a size outside [0,1], and either
\* of them with empty labels, end in an error and return nothing.
C7_InvalidArgumentsRaise ==
  /\ (fn = "get_n_shot" /\ n < 0) => ~Returned
  /\ (fn = "get_n_split" /\ \E j \in 1 .. Len(sizes) : ~InUnit(sizes[j])) => ~Returned
  /\ (fn \in {"get_n_shot", "get_n_split"} /\ labels = <<>>) => ~Returned

\* the index subset dataset v was built from
Subset(v) == IF fn = "full" THEN [p \in 1 .. N |-> p - 1] ELSE result[v]
\* what a read of position at of that subset is to give
SampleAt(v, at) ==
  [status |-> "ok",
   value |-> <<[tensor |-> [file |-> Images(labels)[Subset(v)[at + 1] + 1]]],
               labels[Subset(v)[at + 1] + 1]>>]

C9_FillStep ==
  (pc = "split_fill") =>
    /\ err' = "none"
    /\ IF i < n_datasets
       THEN /\ pc' = "split_fill"
            /\ i' = i + 1
            /\ LET need == target_sizes[i + 1] - Len(indices[i + 1])
                   got == Len(indices'[i + 1]) - Len(indices[i + 1])
               IN  need > 0 =>
                     /\ got >= 0
                     /\ Len(indices'[i + 1]) <= target_sizes[i + 1]
                     /\ got < need => Len(indices'[i + 1]) < target_sizes[i + 1]
       ELSE /\ pc' = "returned"
            /\ Len(result') = n_datasets
C9_UnderFill == [][C9_FillStep]_vars

\* group i-1 has just been filled, the pool had run out, and it is short
C9_Witness ==
  /\ pc = "split_fill"
  /\ i >= 1
  /\ SizesValid
  /\ pool # <<>>
  /\ target_sizes[i] > NumClasses
  /\ Len(indices[i]) < target_sizes[i]

\* C10: no step of get_n_shot or get_n_split, completing or raising, changes
\* the caller's labels: same length, same value at every position.
C10_LabelsStep == labels' = labels
C10_LabelsUntouched == [][C10_LabelsStep]_vars

C10_Witness ==
  /\ fn = "get_n_split"
  /\ pc = "raised"
  /\ err = "IndexError"
  /\ NumClasses = 2
  /\ \E g \in 1 .. n_datasets : indices[g] # <<>>

\* the positions the fill loop appended to group g (1-based), after its seeds
Appended(g) == SubSeq(indices[g], NumClasses + 1, Len(indices[g]))

\* every class has k members and every target is at least the number of classes
C11_Pre ==
  /\ fn = "get_n_split"
  /\ EveryClassHasK
  /\ \A g \in 1 .. n_datasets : target_sizes[g] >= NumClasses

\* C11: when every class has at least k members and every target is at least
\* the number of distinct classes, each group's remaining need is non-negative
\* when its fill step runs, the cursor start stays within 0..len(leftover) and
\* ends at len(leftover), every leftover position is appended to exactly one
\* group, and the k groups partition 0..len(labels)-1 with
\* len(group[i]) = target[i].
C11_FillCursor ==
  (C11_Pre /\ (pc = "split_fill" \/ Returned)) =>
    /\ 0 <= start /\ start <= Len(pool)
    /\ (pc = "split_fill" /\ i < n_datasets) =>
         target_sizes[i + 1] - Len(indices[i + 1]) >= 0
    /\ FillDone =>
         /\ start = Len(pool)
         /\ LET app == Concat([g \in 1 .. n_datasets |-> Appended(g)])
            IN  NoDup(app) /\ Range(app) = Range(pool) /\ Len(app) = Len(pool)
         /\ Len(indices) = n_datasets
         /\ IsPartition(indices)
         /\ \A g \in 1 .. n_datasets : Len(indices[g]) = target_sizes[g]
    /\ Returned => result = indices

C11_Witness ==
  /\ C11_Pre
  /\ pc = "returned"
  /\ n_datasets = 3
  /\ Len(pool) >= 1
  /\ start = Len(pool)
  /\ \E g \in 1 .. n_datasets : Appended(g) # <<>>
  /\ IsPartition(result)
====
